---- MODULE Spec2Model ----
(***************************************************************************)
(* Verification model of buford:                                           *)
(*   - pushpackage.copyAndChecksum (pushpackage/checksum.go), together     *)
(*     with the io.Copy / io.MultiWriter / hex.EncodeToString steps it is  *)
(*     built from;                                                         *)
(*   - payload.APS and payload.Alert (Map, Validate, isSimple, isZero);    *)
(*   - the push package build pipeline of the design document.             *)
(***************************************************************************)
EXTENDS Integers, Sequences, FiniteSets, TLC

(***************************************************************************)
(* Bounds of the model.                                                    *)
(***************************************************************************)
\* longest byte sequence held by the source reader
MaxLen == 3
\* length of the copy buffer handed to Read (32 KiB in io.Copy)
BufSize == 2
\* largest number of APS / Alert fields assigned in one payload
MaxFieldsSet == 3
\* largest number of files placed in one package
MaxFiles == 2

\* byte values the source may hold (both hex digits of a byte differ, and
\* both digit ranges 0-9 and a-f occur)
Bytes == {10, 171}

VARIABLES
    \* ---- copyAndChecksum ----
    pc,        \* position inside copyAndChecksum / io.Copy
    src,       \* r: the bytes the source reader holds
    rpos,      \* r: number of bytes Read has handed out
    rfail,     \* r: TRUE once Read has returned an error other than io.EOF
    dst,       \* w: the bytes the destination writer has accepted
    wfail,     \* w: TRUE once Write has failed (error or short count)
    hashed,    \* h: the bytes the sha512 accumulator has absorbed
    buf,       \* io.Copy: buf[0:nr], the chunk of the current iteration
    er,        \* io.Copy: error of the last Read
    err,       \* io.Copy: error the copy ends with
    retSum,    \* copyAndChecksum: returned string
    retErr,    \* copyAndChecksum: returned error
    \* ---- payload ----
    aps,       \* a *APS: <<>> (nil) or <<value>>
    nset,      \* number of field assignments made to aps
    mapOut,    \* <<m>>, m the result of a.Map() on the current value
    valOut,    \* result of a.Validate() on the current value
    \* ---- push package build ----
    state,     \* build state
    pending,   \* files still to be written
    entries,   \* names of the archive entries written, in order
    manifest,  \* set of paths the manifest has a digest for
    pkgErr     \* error returned by the last package operation

ckVars  == <<pc, src, rpos, rfail, dst, wfail, hashed, buf, er, err, retSum, retErr>>
apsVars == <<aps, nset, mapOut, valOut>>
pkgVars == <<state, pending, entries, manifest, pkgErr>>
vars    == <<ckVars, apsVars, pkgVars>>

None == "none"

(***************************************************************************)
(* Sequences helpers.                                                      *)
(***************************************************************************)
SeqsUpTo(S, n) == UNION {[1..k -> S] : k \in 0..n}

Min(a, b) == IF a < b THEN a ELSE b

IsPrefix(s, t) == Len(s) <= Len(t) /\ SubSeq(t, 1, Len(s)) = s

(***************************************************************************)
(* crypto/sha512 and encoding/hex.                                         *)
(***************************************************************************)
\* sha512.Size: a digest is 64 bytes
Size == 64

\* The compression function is abstracted: the accumulator state is a number
\* that every absorbed byte changes, position-dependently.
Absorb(st, b) == (st * 31 + b + 1) % 65521

RECURSIVE AbsorbAll(_, _)
AbsorbAll(st, bs) ==
    IF bs = <<>> THEN st ELSE AbsorbAll(Absorb(st, Head(bs)), Tail(bs))

\* h.Sum(nil) of an accumulator that absorbed bs: Size bytes
Sum512(bs) ==
    LET st == AbsorbAll(7, bs)
    IN  [i \in 1..Size |-> ((st \div 256) * i + (st % 256) + i) % 256]

hextable == <<"0", "1", "2", "3", "4", "5", "6", "7",
              "8", "9", "a", "b", "c", "d", "e", "f">>

\* hex.EncodeToString: two characters per byte, high nibble first
EncodeToString(bs) ==
    [j \in 1..(2 * Len(bs)) |->
        LET b == bs[(j + 1) \div 2]
        IN  IF j % 2 = 1 THEN hextable[(b \div 16) + 1]
                         ELSE hextable[(b % 16) + 1]]

(***************************************************************************)
(* copyAndChecksum(w, r): io.Copy(io.MultiWriter(w, h), r), then           *)
(* hex.EncodeToString(h.Sum(nil)).                                         *)
(***************************************************************************)
CkIdle ==
    /\ pc = "idle" /\ src = <<>> /\ rpos = 0 /\ rfail = FALSE
    /\ dst = <<>> /\ wfail = FALSE /\ hashed = <<>> /\ buf = <<>>
    /\ er = "nil" /\ err = "nil" /\ retSum = <<>> /\ retErr = None

\* h := sha512.New(); mw := io.MultiWriter(w, h); entry of io.Copy
CkInit ==
    /\ pc = "read"
    /\ src \in SeqsUpTo(Bytes, MaxLen)
    /\ rpos = 0 /\ rfail = FALSE
    /\ dst = <<>> /\ wfail = FALSE
    /\ hashed = <<>> /\ buf = <<>>
    /\ er = "nil" /\ err = "nil"
    /\ retSum = <<>> /\ retErr = None

\* as AfterChunk, with io.EOF reported like any other read error
AfterChunkEOFIsError(e) ==
    IF e = "nil" THEN /\ pc' = "read"
                      /\ err' = err
    ELSE /\ pc' = "return"
         /\ err' = e

\* io.Copy, after the chunk (if any) of this iteration went through:
\*   if er != nil { if er != EOF { err = er }; break }
AfterChunk(e) ==
    IF e = "nil" THEN /\ pc' = "read"
                      /\ err' = err
    ELSE /\ pc' = "return"
         /\ err' = IF e = "EOF" THEN "nil" ELSE e

\* nr, er := src.Read(buf)
\* The reader hands out the next nr bytes, 0 <= nr <= len(buf), with a nil
\* error, with io.EOF (only once everything was handed out) or with a failure.
Read ==
    /\ pc = "read"
    /\ \E nr \in 0..Min(BufSize, Len(src) - rpos),
          e \in {"nil", "EOF", "ErrRead"} :
        /\ e = "EOF" => rpos + nr = Len(src)
        /\ buf' = SubSeq(src, rpos + 1, rpos + nr)
        /\ rpos' = rpos + nr
        /\ er' = e
        /\ rfail' = (rfail \/ e = "ErrRead")
        /\ IF nr > 0 THEN pc' = "write_w" /\ err' = err
                     ELSE AfterChunk(e)
    /\ UNCHANGED <<src, dst, wfail, hashed, retSum, retErr>>

\* as WriteDst, with a MultiWriter that goes on to the next writer whatever
\* the first one returned
WriteDstIgnoresFailure ==
    /\ pc = "write_w"
    /\ \E n \in 0..Len(buf), ew \in {"nil", "ErrWrite"} :
        /\ dst' = dst \o SubSeq(buf, 1, n)
        /\ pc' = "write_h" /\ err' = err
        /\ wfail' = (wfail \/ ew # "nil" \/ n # Len(buf))
    /\ UNCHANGED <<src, rpos, rfail, hashed, buf, er, retSum, retErr>>

\* MultiWriter.Write, first writer: n, err = w.Write(p)
\*   if err != nil { return }; if n != len(p) { err = io.ErrShortWrite; return }
\* and io.Copy: if ew != nil { err = ew; break }
WriteDst ==
    /\ pc = "write_w"
    /\ \E n \in 0..Len(buf), ew \in {"nil", "ErrWrite"} :
        /\ dst' = dst \o SubSeq(buf, 1, n)
        /\ IF ew # "nil"
             THEN pc' = "return" /\ err' = ew /\ wfail' = TRUE
           ELSE IF n # Len(buf)
             THEN pc' = "return" /\ err' = "ErrShortWrite" /\ wfail' = TRUE
           ELSE pc' = "write_h" /\ err' = err /\ wfail' = wfail
    /\ UNCHANGED <<src, rpos, rfail, hashed, buf, er, retSum, retErr>>

\* as WriteHash, with the chunk that arrived together with io.EOF not absorbed
WriteHashDropsLast ==
    /\ pc = "write_h"
    /\ hashed' = IF er = "EOF" THEN hashed ELSE hashed \o buf
    /\ AfterChunk(er)
    /\ UNCHANGED <<src, rpos, rfail, dst, wfail, buf, er, retSum, retErr>>

\* MultiWriter.Write, second writer: h.Write(p) never fails; MultiWriter
\* returns len(p), nil and io.Copy goes on to look at er.
WriteHash ==
    /\ pc = "write_h"
    /\ hashed' = hashed \o buf
    /\ AfterChunk(er)
    /\ UNCHANGED <<src, rpos, rfail, dst, wfail, buf, er, retSum, retErr>>

\* as Return, with the digest returned whatever io.Copy reported
ReturnDigestAlways ==
    /\ pc = "return"
    /\ pc' = "done"
    /\ retSum' = EncodeToString(Sum512(hashed))
    /\ retErr' = err
    /\ UNCHANGED <<src, rpos, rfail, dst, wfail, hashed, buf, er, err>>

\* if _, err := io.Copy(mw, r); err != nil { return "", err }
\* return hex.EncodeToString(h.Sum(nil)), nil
Return ==
    /\ pc = "return"
    /\ pc' = "done"
    /\ IF err # "nil"
         THEN retSum' = <<>> /\ retErr' = err
         ELSE retSum' = EncodeToString(Sum512(hashed)) /\ retErr' = "nil"
    /\ UNCHANGED <<src, rpos, rfail, dst, wfail, hashed, buf, er, err>>

ApsIdle == aps = <<>> /\ nset = 0 /\ mapOut = <<>> /\ valOut = None
PkgIdle == state = None /\ pending = <<>> /\ entries = <<>> /\ manifest = {} /\ pkgErr = "nil"

CkNext ==
    \/ Read /\ UNCHANGED <<apsVars, pkgVars>>
    \/ WriteDst /\ UNCHANGED <<apsVars, pkgVars>>
    \/ WriteHash /\ UNCHANGED <<apsVars, pkgVars>>
    \/ Return /\ UNCHANGED <<apsVars, pkgVars>>

InitChecksum == CkInit /\ ApsIdle /\ PkgIdle

SpecChecksum == InitChecksum /\ [][CkNext]_vars

(***************************************************************************)
(* payload: APS, Alert, Sound and badge.Badge.                             *)
(* A Go string is "" or not, a []string is empty or not; a *APS is <<>>    *)
(* (nil) or <<a>> (a pointer to the value a).                              *)
(***************************************************************************)
AlertStrings == {"Title", "TitleLocKey", "Subtitle", "SubtitleLocKey", "Body",
                 "LocKey", "ActionLocKey", "LaunchImage", "SafariAction"}
AlertLists   == {"TitleLocArgs", "SubtitleLocArgs", "LocArgs"}
AlertFields  == AlertStrings \cup AlertLists

\* the zero value of Alert
ZeroAlert == [f \in AlertFields |-> IF f \in AlertStrings THEN "" ELSE <<>>]

\* badge.Preserve, badge.Clear and badge.New(n)
Preserve == [number |-> 0, isSet |-> FALSE]
Clear    == [number |-> 0, isSet |-> TRUE]
New(n)   == [number |-> n, isSet |-> TRUE]

ZeroSound == [SoundName |-> "", IsCritical |-> 0, CriticalVolume |-> 0]

\* the zero value of APS
ZeroAPS ==
    [Alert |-> ZeroAlert, Badge |-> Preserve, Sound |-> ZeroSound,
     ThreadID |-> "", Category |-> "", ContentAvailable |-> FALSE,
     MutableContent |-> FALSE, TargetContentID |-> "", SafariURLArgs |-> <<>>,
     InterruptionLevel |-> "", RelevanceScore |-> 0]

ErrIncomplete == "ErrIncomplete"

\* func (a *Alert) isSimple() bool
isSimple(a) ==
    /\ Len(a.Title) = 0 /\ Len(a.Subtitle) = 0
    /\ Len(a.LaunchImage) = 0
    /\ Len(a.TitleLocKey) = 0 /\ Len(a.TitleLocArgs) = 0
    /\ Len(a.LocKey) = 0 /\ Len(a.LocArgs) = 0 /\ Len(a.ActionLocKey) = 0

\* func (a *Alert) isZero() bool
isZero(a) == Len(a.Body) = 0 /\ isSimple(a)

\* the keys func (a *APS) Map() puts into aps
MapKeys(a) ==
    {k \in {"alert", "badge", "sound", "content-available", "category",
            "mutable-content", "thread-id", "target-content-id", "url-args",
            "interruption-level", "relevance-score"} :
        CASE k = "alert"              -> ~isZero(a.Alert)
          [] k = "badge"              -> a.Badge.isSet
          [] k = "sound"              -> a.Sound.SoundName # ""
          [] k = "content-available"  -> a.ContentAvailable
          [] k = "category"           -> a.Category # ""
          [] k = "mutable-content"    -> a.MutableContent
          [] k = "thread-id"          -> a.ThreadID # ""
          [] k = "target-content-id"  -> a.TargetContentID # ""
          [] k = "url-args"           -> Len(a.SafariURLArgs) > 0
          [] k = "interruption-level" -> a.InterruptionLevel # ""
          [] k = "relevance-score"    -> a.RelevanceScore > 0}

\* func (a *APS) Map() map[string]interface{}
\* An interface{} value carries its dynamic type: [type, v].
Map(a) ==
    [aps |->
        [k \in MapKeys(a) |->
            CASE k = "alert" ->
                    IF isSimple(a.Alert)
                      THEN [type |-> "string", v |-> a.Alert.Body]
                      ELSE [type |-> "Alert", v |-> a.Alert]
              [] k = "badge"              -> [type |-> "uint", v |-> a.Badge.number]
              [] k = "sound"              -> [type |-> "Sound", v |-> a.Sound]
              [] k = "content-available"  -> [type |-> "int", v |-> 1]
              [] k = "category"           -> [type |-> "string", v |-> a.Category]
              [] k = "mutable-content"    -> [type |-> "int", v |-> 1]
              [] k = "thread-id"          -> [type |-> "string", v |-> a.ThreadID]
              [] k = "target-content-id"  -> [type |-> "string", v |-> a.TargetContentID]
              [] k = "url-args"           -> [type |-> "[]string", v |-> a.SafariURLArgs]
              [] k = "interruption-level" -> [type |-> "InterruptionLevel",
                                              v |-> a.InterruptionLevel]
              [] k = "relevance-score"    -> [type |-> "float32", v |-> a.RelevanceScore]]]

\* as Validate, with a silent (content-available) notification accepted
ValidateAcceptsSilent(p) ==
    IF p = <<>> THEN ErrIncomplete
    ELSE IF Len(p[1].Alert.Body) = 0 /\ p[1].Badge = Preserve
            /\ ~p[1].ContentAvailable
      THEN ErrIncomplete
    ELSE "nil"

\* func (a *APS) Validate() error, p the receiver
Validate(p) ==
    IF p = <<>> THEN ErrIncomplete
    ELSE IF Len(p[1].Alert.Body) = 0 /\ p[1].Badge = Preserve
      THEN ErrIncomplete
    ELSE "nil"

\* var a *APS, or a := &APS{}
ApsInit ==
    /\ aps \in {<<>>, <<ZeroAPS>>}
    /\ nset = 0
    /\ mapOut = <<>>
    /\ valOut = None

\* a.Alert.<f> = <non-empty value>
SetAlertField ==
    /\ aps # <<>> /\ nset < MaxFieldsSet
    /\ \E f \in AlertFields :
        /\ aps[1].Alert[f] = ZeroAlert[f]
        /\ aps' = <<[aps[1] EXCEPT !.Alert[f] =
                        IF f \in AlertStrings THEN "x" ELSE <<"a">>]>>
    /\ nset' = nset + 1
    /\ mapOut' = <<>> /\ valOut' = None

\* a.Badge = badge.Clear, or a.Badge = badge.New(n)
SetBadge ==
    /\ aps # <<>> /\ nset < MaxFieldsSet
    /\ aps[1].Badge = Preserve
    /\ \E b \in {Clear, New(3)} : aps' = <<[aps[1] EXCEPT !.Badge = b]>>
    /\ nset' = nset + 1
    /\ mapOut' = <<>> /\ valOut' = None

\* a.Sound.<f> = <non-zero value>
SetSoundField ==
    /\ aps # <<>> /\ nset < MaxFieldsSet
    /\ \E f \in {"SoundName", "IsCritical", "CriticalVolume"} :
        /\ aps[1].Sound[f] = ZeroSound[f]
        /\ aps' = <<[aps[1] EXCEPT !.Sound[f] =
                        IF f = "SoundName" THEN "x" ELSE 1]>>
    /\ nset' = nset + 1
    /\ mapOut' = <<>> /\ valOut' = None

\* a.<f> = <non-zero value>, for the remaining fields of APS
SetField ==
    /\ aps # <<>> /\ nset < MaxFieldsSet
    /\ \E f \in {"ThreadID", "Category", "ContentAvailable", "MutableContent",
                 "TargetContentID", "SafariURLArgs", "InterruptionLevel",
                 "RelevanceScore"} :
        /\ aps[1][f] = ZeroAPS[f]
        /\ aps' = <<[aps[1] EXCEPT ![f] =
                        CASE f \in {"ContentAvailable", "MutableContent"} -> TRUE
                          [] f = "SafariURLArgs" -> <<"a">>
                          [] f = "RelevanceScore" -> 1
                          [] f = "InterruptionLevel" -> "active"
                          [] OTHER -> "x"]>>
    /\ nset' = nset + 1
    /\ mapOut' = <<>> /\ valOut' = None

\* m := a.Map()   (a nil receiver panics on a.Alert: no result)
CallMap ==
    /\ aps # <<>>
    /\ mapOut' = <<Map(aps[1])>>
    /\ UNCHANGED <<aps, nset, valOut>>

\* err := a.Validate()
CallValidate ==
    /\ valOut' = Validate(aps)
    /\ UNCHANGED <<aps, nset, mapOut>>

ApsNext ==
    \/ SetAlertField /\ UNCHANGED <<ckVars, pkgVars>>
    \/ SetBadge /\ UNCHANGED <<ckVars, pkgVars>>
    \/ SetSoundField /\ UNCHANGED <<ckVars, pkgVars>>
    \/ SetField /\ UNCHANGED <<ckVars, pkgVars>>
    \/ CallMap /\ UNCHANGED <<ckVars, pkgVars>>
    \/ CallValidate /\ UNCHANGED <<ckVars, pkgVars>>

InitPayload == ApsInit /\ CkIdle /\ PkgIdle

SpecPayload == InitPayload /\ [][ApsNext]_vars

(***************************************************************************)
(* Push package build (design document, sections 4.2 - 4.4 and 7):         *)
(*   Empty -> WritingFiles -> ManifestReady -> Signed -> Finalized.        *)
(* A failure ends the build: pkgErr is set and no later step runs.         *)
(***************************************************************************)
Paths == {"icon.png", "icon@2x.png", "website.json"}

\* a fresh builder and the files the caller will hand to it
PkgInit ==
    /\ state = "Empty"
    /\ pending \in SeqsUpTo(Paths, MaxFiles)
    /\ entries = <<>>
    /\ manifest = {}
    /\ pkgErr = "nil"

\* the build starts to take files
BeginFiles ==
    /\ state = "Empty" /\ pkgErr = "nil"
    /\ state' = "WritingFiles"
    /\ UNCHANGED <<pending, entries, manifest, pkgErr>>

\* 4.4 (1): the next file is written as an entry named by its path, its
\* checksum computed in the same pass (4.1) and recorded in the manifest (4.2)
WriteFile ==
    /\ state = "WritingFiles" /\ pkgErr = "nil"
    /\ pending # <<>>
    /\ LET path == Head(pending) IN
        IF path \in manifest
          THEN /\ pkgErr' = "DuplicatePath"
               /\ UNCHANGED <<pending, entries, manifest>>
          ELSE \E res \in {"nil", "ReadFailure", "ArchiveWriteFailure"} :
               IF res = "nil"
                 THEN /\ entries' = Append(entries, path)
                      /\ manifest' = manifest \cup {path}
                      /\ pending' = Tail(pending)
                      /\ pkgErr' = "nil"
                 ELSE /\ pkgErr' = res
                      /\ UNCHANGED <<pending, entries, manifest>>
    /\ UNCHANGED state

\* as WriteManifest, started while files are still to be written
WriteManifestEarly ==
    /\ state = "WritingFiles" /\ pkgErr = "nil"
    /\ \E res \in {"nil", "ArchiveWriteFailure"} :
        IF res = "nil"
          THEN /\ entries' = Append(entries, "manifest.json")
               /\ state' = "ManifestReady"
               /\ pkgErr' = "nil"
          ELSE /\ pkgErr' = res
               /\ UNCHANGED <<entries, state>>
    /\ UNCHANGED <<pending, manifest>>

\* 4.4 (2): once all files are written the manifest is serialized and
\* written as manifest.json
WriteManifest ==
    /\ state = "WritingFiles" /\ pkgErr = "nil"
    /\ pending = <<>>
    /\ \E res \in {"nil", "ArchiveWriteFailure"} :
        IF res = "nil"
          THEN /\ entries' = Append(entries, "manifest.json")
               /\ state' = "ManifestReady"
               /\ pkgErr' = "nil"
          ELSE /\ pkgErr' = res
               /\ UNCHANGED <<entries, state>>
    /\ UNCHANGED <<pending, manifest>>

\* 4.4 (3): the manifest bytes are signed (4.3) and the signature written
Sign ==
    /\ state = "ManifestReady" /\ pkgErr = "nil"
    /\ \E res \in {"nil", "SigningFailure", "ArchiveWriteFailure"} :
        IF res = "nil"
          THEN /\ entries' = Append(entries, "signature")
               /\ state' = "Signed"
               /\ pkgErr' = "nil"
          ELSE /\ pkgErr' = res
               /\ UNCHANGED <<entries, state>>
    /\ UNCHANGED <<pending, manifest>>

\* the terminating directory structure is written and the archive closed
Finalize ==
    /\ state = "Signed" /\ pkgErr = "nil"
    /\ \E res \in {"nil", "ArchiveWriteFailure"} :
        IF res = "nil"
          THEN state' = "Finalized" /\ pkgErr' = "nil"
          ELSE state' = state /\ pkgErr' = res
    /\ UNCHANGED <<pending, entries, manifest>>

\* a write attempted on the finalized archive is an error
WriteAfterFinalize ==
    /\ state = "Finalized" /\ pkgErr = "nil"
    /\ pkgErr' = "ArchiveWriteFailure"
    /\ UNCHANGED <<state, pending, entries, manifest>>

PkgNext ==
    \/ BeginFiles /\ UNCHANGED <<ckVars, apsVars>>
    \/ WriteFile /\ UNCHANGED <<ckVars, apsVars>>
    \/ WriteManifest /\ UNCHANGED <<ckVars, apsVars>>
    \/ Sign /\ UNCHANGED <<ckVars, apsVars>>
    \/ Finalize /\ UNCHANGED <<ckVars, apsVars>>
    \/ WriteAfterFinalize /\ UNCHANGED <<ckVars, apsVars>>

InitPackage == PkgInit /\ CkIdle /\ ApsIdle

SpecPackage == InitPackage /\ [][PkgNext]_vars

(***************************************************************************)
(* Properties of copyAndChecksum.                                          *)
(***************************************************************************)
HexDigits == {"0", "1", "2", "3", "4", "5", "6", "7", "8", "9",
              "a", "b", "c", "d", "e", "f"}

\* C1: when neither the reader nor the destination writer failed, the call
\* returns a nil error, the destination holds exactly the source's bytes in
\* order, and the returned string is the 128 lowercase hex characters of the
\* reference digest of those bytes.
C1_CopyAndDigest ==
    (pc = "done" /\ ~rfail /\ ~wfail) =>
        /\ retErr = "nil"
        /\ dst = src
        /\ retSum = EncodeToString(Sum512(src))
        /\ Len(retSum) = 128
        /\ \A i \in 1..Len(retSum) : retSum[i] \in HexDigits

\* a successful copy of a source that had to be split into several chunks
C1_Witness ==
    /\ pc = "done" /\ ~rfail /\ ~wfail
    /\ Len(src) = 3 /\ dst = src /\ retErr = "nil"

\* C2: once a Read or a Write has failed the copy reads no more, and once a
\* Write has failed nothing more is written or hashed; the call returns the
\* failure (the write failure when a write failed, else the read failure)
\* with the empty string, and never a digest together with an error.
C2_FailurePropagates ==
    /\ rfail => pc # "read"
    /\ wfail => pc \in {"return", "done"}
    /\ pc = "done" =>
        /\ wfail => retErr \in {"ErrWrite", "ErrShortWrite"} /\ retSum = <<>>
        /\ (rfail /\ ~wfail) => retErr = "ErrRead" /\ retSum = <<>>
        /\ retErr # "nil" => retSum = <<>>

\* a write failing after an earlier chunk was read, written and hashed
C2_Witness ==
    /\ pc = "done" /\ wfail /\ Len(hashed) > 0
    /\ retErr = "ErrWrite" /\ retSum = <<>>

\* C3: a source that yields no byte before end-of-stream gives a nil error,
\* an untouched destination and the digest of the empty sequence, which is
\* not the empty string.
C3_EmptyInput ==
    (pc = "done" /\ src = <<>> /\ ~rfail) =>
        /\ retErr = "nil"
        /\ dst = <<>>
        /\ retSum = EncodeToString(Sum512(<<>>))
        /\ retSum # <<>>

C3_Witness ==
    pc = "done" /\ src = <<>> /\ ~rfail /\ er = "EOF" /\ Len(retSum) = 128

\* C8: the hashed bytes are a prefix of the bytes the destination accepted,
\* which are a prefix of the bytes read; a chunk reaches the hash only after
\* the destination took all of it, a chunk the destination rejected is not
\* hashed, and a digest is produced only after the source signalled EOF.
C8_PrefixOrder ==
    /\ IsPrefix(hashed, dst)
    /\ IsPrefix(dst, SubSeq(src, 1, rpos))
    /\ pc = "write_h" => dst = hashed \o buf
    /\ wfail => hashed = SubSeq(src, 1, rpos - Len(buf))
    /\ (pc = "done" /\ retSum # <<>>) => er = "EOF"

\* a chunk partly taken by the destination and then rejected, after an
\* earlier chunk went through
C8_Witness ==
    /\ wfail /\ pc = "done"
    /\ Len(hashed) > 0 /\ Len(dst) > Len(hashed) /\ Len(dst) < rpos

(***************************************************************************)
(* Properties of the payload.                                              *)
(***************************************************************************)
\* no field of the Alert is set
NoAlertFieldSet(a) == \A f \in AlertFields : Len(a[f]) = 0

\* Body is the only field of the Alert that is set
OnlyBodySet(a) ==
    Len(a.Body) > 0 /\ \A f \in AlertFields \ {"Body"} : Len(a[f]) = 0

C6_IsZeroAllFields ==
    aps # <<>> =>
        /\ isZero(aps[1].Alert) <=> NoAlertFieldSet(aps[1].Alert)
        /\ mapOut # <<>> =>
              ("alert" \in DOMAIN mapOut[1].aps <=> ~NoAlertFieldSet(aps[1].Alert))

\* C7: Map gives "alert" as the bare Body string only when Body is the only
\* Alert field set; with any other Alert field set the value is the Alert
\* dictionary (and the key is present).
C7_SimpleOnlyBody ==
    (mapOut # <<>> /\ ~NoAlertFieldSet(aps[1].Alert)) =>
        /\ "alert" \in DOMAIN mapOut[1].aps
        /\ IF OnlyBodySet(aps[1].Alert)
             THEN mapOut[1].aps["alert"] = [type |-> "string", v |-> aps[1].Alert.Body]
             ELSE mapOut[1].aps["alert"] = [type |-> "Alert", v |-> aps[1].Alert]

(***************************************************************************)
(* Properties of the package build.                                        *)
(***************************************************************************)
NextState(st) ==
    CASE st = "Empty"         -> "WritingFiles"
      [] st = "WritingFiles"  -> "ManifestReady"
      [] st = "ManifestReady" -> "Signed"
      [] st = "Signed"        -> "Finalized"
      [] OTHER                -> st

\* the position of name among the entries, 0 when absent
Position(name) ==
    IF \E i \in 1..Len(entries) : entries[i] = name
      THEN CHOOSE i \in 1..Len(entries) : entries[i] = name
      ELSE 0

\* C4: the build state only ever moves to the next state of
\* Empty, WritingFiles, ManifestReady, Signed, Finalized; the manifest is
\* written after every file, the signature after the manifest, Finalized is
\* never left, and a write on a finalized archive is an error that leaves
\* the archive as it was.
C4_StateOrder ==
    /\ [](/\ state \in {"ManifestReady", "Signed", "Finalized"} =>
               /\ pending = <<>>
               /\ Position("manifest.json") = Len(entries) -
                      (IF state = "ManifestReady" THEN 0 ELSE 1)
          /\ state \in {"Signed", "Finalized"} =>
               Position("signature") = Len(entries))
    /\ [][/\ state' # state => state' = NextState(state)
          /\ state = "Finalized" =>
               /\ state' = "Finalized"
               /\ entries' = entries
               /\ pkgErr' # "nil"]_vars

\* a build of two files that was finalized and then written to
C4_Witness ==
    /\ state = "Finalized" /\ pkgErr = "ArchiveWriteFailure"
    /\ Len(entries) = 4

====
